---- MODULE Spec2Model ----
(***************************************************************************)
(* pvlib.ivtools: extraction of single-diode parameters.                   *)
(*                                                                         *)
(*   fit_sde_sandia   IV curve -> (IL, I0, Rsh, Rs, nNsVth)                *)
(*   fit_sdm_desoto   datasheet scalars -> SDM record                      *)
(*   _find_mp         IV curve -> sample of largest power                  *)
(*                                                                         *)
(* Floating-point values are modelled as exact rationals <<n, d>> with     *)
(* d > 0, and NaN as <<0, 0>>.  Array samples are integers.  The numeric   *)
(* library calls whose results cannot be computed with integers            *)
(* (lstsq of log(y), exp, scipy root) are a nondeterministic choice among  *)
(* the results the call can produce.                                       *)
(***************************************************************************)
EXTENDS Integers, Sequences, FiniteSets, TLC

\* ---------------------------------------------------------------- bounds
\* longest IV curve
MaxLen == 4
\* largest voltage sample
MaxV == 3
\* largest current sample
MaxI == 2

\* ------------------------------------------------------------- rationals
Abs(x) == IF x < 0 THEN -x ELSE x

RECURSIVE GCD(_, _)
GCD(a, b) == IF b = 0 THEN a ELSE GCD(b, a % b)

NaN == <<0, 0>>

IsNaN(x) == x[2] = 0

\* n/d in lowest terms with a positive denominator (d # 0)
Rat(n, d) ==
    LET g == GCD(Abs(n), Abs(d))
        s == IF d < 0 THEN -1 ELSE 1
    IN  <<(s * n) \div g, (s * d) \div g>>

Int2F(k) == <<k, 1>>

\* IEEE arithmetic on the modelled values: NaN propagates
Add(x, y) == IF IsNaN(x) \/ IsNaN(y) THEN NaN
             ELSE Rat(x[1] * y[2] + y[1] * x[2], x[2] * y[2])

Neg(x) == IF IsNaN(x) THEN NaN ELSE <<-x[1], x[2]>>

Sub(x, y) == Add(x, Neg(y))

Mul(x, y) == IF IsNaN(x) \/ IsNaN(y) THEN NaN
             ELSE Rat(x[1] * y[1], x[2] * y[2])

\* x / y for y # 0
Div(x, y) == IF IsNaN(x) \/ IsNaN(y) THEN NaN
             ELSE Rat(x[1] * y[2], x[2] * y[1])

\* IEEE comparisons: every comparison with NaN is false
Lt(x, y) == ~IsNaN(x) /\ ~IsNaN(y) /\ x[1] * y[2] < y[1] * x[2]

Gt(x, y) == Lt(y, x)

Le(x, y) == ~IsNaN(x) /\ ~IsNaN(y) /\ x[1] * y[2] <= y[1] * x[2]

IsZero(x) == ~IsNaN(x) /\ x[1] = 0

Zero == Int2F(0)

One == Int2F(1)

\* ------------------------------------------------------ optional arguments
None == <<>>

Some(x) == <<x>>

Val(o) == o[1]

Last(s) == s[Len(s)]

\* ------------------------------------------------------------ exceptions
\* where: the function whose frame raised
NoExc == [type |-> "", msg |-> "", where |-> ""]

Exc(t, m, w) == [type |-> t, msg |-> m, where |-> w]

VARIABLES
    fn,          \* the public function called
    pc,          \* position in the call
    exc,         \* the exception that ended the call, if any
    voltage,     \* fit_sde_sandia: argument voltage
    current,     \* argument current
    v_oc,        \* argument / local v_oc (None until defaulted)
    i_sc,        \* argument / local i_sc
    v_mp_i_mp,   \* argument v_mp_i_mp
    vlim,        \* argument vlim
    ilim,        \* argument ilim
    args,        \* the arguments as the caller passed them
    v_mp,        \* local v_mp
    i_mp,        \* local i_mp
    find_mp_calls, \* number of calls of _find_mp
    first_idx,   \* _find_beta0_beta1: first_idx
    idx,         \* _find_beta0_beta1: the value the range yields next / accepted
    b01_v_oc,    \* _find_beta0_beta1: parameter v_oc
    beta0,
    beta1,
    b34_i_sc,    \* _find_beta3_beta4: parameter i_sc
    mask,        \* _find_beta3_beta4: the selected sample indices (0-based)
    beta3,
    beta4,
    calc_pt,     \* _calculate_sde_parameters: parameters <<v_mp, i_mp, v_oc>>
    I0_vmp,
    I0_voc,
    result,      \* the returned value
    celltype,    \* fit_sdm_desoto: argument celltype, a sequence of characters
    Tref,        \* local Tref [K]
    EgRef,
    dEgdT,
    alpha_sc,    \* argument / local alpha_sc (reassigned in A/K)
    beta_voc,    \* argument / local beta_voc (reassigned in V/K)
    specs,       \* the specs vector handed to root
    root_calls,  \* number of calls of scipy.optimize.root
    root_result  \* what root returned: [success, x]

sde_vars == <<voltage, current, v_oc, i_sc, v_mp_i_mp, vlim, ilim, v_mp, i_mp,
              find_mp_calls, first_idx, idx, b01_v_oc, beta0, beta1, b34_i_sc,
              mask, beta3, beta4, calc_pt, I0_vmp, I0_voc>>

desoto_vars == <<celltype, Tref, EgRef, dEgdT, alpha_sc, beta_voc, specs,
                 root_calls, root_result>>

vars == <<fn, pc, exc, args, result, sde_vars, desoto_vars>>

\* ------------------------------------------------------------- _find_mp
\* p = voltage * current
Power(v, i) == [k \in 1..Len(v) |-> v[k] * i[k]]

\* np.argmax: linear scan keeping the first strictly larger element; k is the
\* 1-based position being examined, best the position kept so far
\* a scan that keeps the last of equal maxima
RECURSIVE ArgmaxScanLast(_, _, _)
ArgmaxScanLast(p, k, best) ==
    IF k > Len(p) THEN best
    ELSE ArgmaxScanLast(p, k + 1, IF p[k] >= p[best] THEN k ELSE best)

RECURSIVE ArgmaxScan(_, _, _)
ArgmaxScan(p, k, best) ==
    IF k > Len(p) THEN best
    ELSE ArgmaxScan(p, k + 1, IF p[k] > p[best] THEN k ELSE best)

argmax(p) == ArgmaxScan(p, 2, 1)

\* returns <<voltage[idx], current[idx]>>
find_mp(v, i) ==
    LET k == argmax(Power(v, i)) IN <<v[k], i[k]>>

\* -------------------------------------------------------- _find_beta0_beta1
\* np.searchsorted(a, key), side='left': binary search; returns a 0-based index
RECURSIVE BinSearch(_, _, _, _)
BinSearch(a, key, lo, hi) ==
    IF lo >= hi THEN lo
    ELSE LET mid == lo + ((hi - lo) \div 2) IN
         IF Lt(Int2F(a[mid + 1]), key)
         THEN BinSearch(a, key, mid + 1, hi)
         ELSE BinSearch(a, key, lo, mid)

searchsorted(a, key) == BinSearch(a, key, 0, Len(a))

RECURSIVE SumSeq(_)
SumSeq(s) == IF s = <<>> THEN 0 ELSE s[1] + SumSeq(Tail(s))

Prod(x, y) == [k \in 1..Len(x) |-> x[k] * y[k]]

\* np.polyfit(x, y, deg=1): the set of outcomes the call can have, each
\* [exc, coef] with coef = <<slope, intercept>>.
\*   - an empty x raises TypeError;
\*   - x all zero: the column scaling divides 0 by 0 and lstsq is handed a NaN
\*     matrix: LinAlgError, or NaN coefficients, depending on the LAPACK build;
\*   - x all equal to c # 0: rank deficient, the minimum-norm solution;
\*   - otherwise the least-squares line.
polyfit(x, y) ==
    LET n   == Len(x)
        Sx  == SumSeq(x)
        Sy  == SumSeq(y)
        Sxx == SumSeq(Prod(x, x))
        Sxy == SumSeq(Prod(x, y))
        D   == n * Sxx - Sx * Sx
    IN  IF n = 0
        THEN {[exc |-> Exc("TypeError", "expected non-empty vector for x",
                           "_find_beta0_beta1"),
               coef |-> <<NaN, NaN>>]}
        ELSE IF Sxx = 0
        THEN {[exc |-> Exc("LinAlgError", "SVD did not converge",
                           "_find_beta0_beta1"),
               coef |-> <<NaN, NaN>>],
              [exc |-> NoExc, coef |-> <<NaN, NaN>>]}
        ELSE IF D = 0
        THEN {[exc |-> NoExc,
               coef |-> <<Rat(Sy, 2 * x[1] * n), Rat(Sy, 2 * n)>>]}
        ELSE {[exc |-> NoExc,
               coef |-> <<Rat(n * Sxy - Sx * Sy, D),
                          Rat(Sy * Sxx - Sx * Sxy, D)>>]}

\* the test of line 481 written with <= for <
SlopeNotPositive(coef) == Le(coef[1], Zero)

\* coef[0] < 0
SlopeNegative(coef) == Lt(coef[1], Zero)

\* The loop of _find_beta0_beta1 tries the windows v[:idx] for idx in
\* range(first_idx, len(v)).
find_beta0_beta1_start ==
    /\ fn = "fit_sde_sandia" /\ pc = "beta01"
    /\ b01_v_oc' = Val(v_oc)
    /\ beta0' = NaN
    /\ beta1' = NaN
    /\ first_idx' = searchsorted(voltage, Mul(vlim, Int2F(b01_v_oc')))
    /\ idx' = first_idx'
    /\ pc' = "beta01_loop"
    /\ UNCHANGED <<desoto_vars, fn, exc, args, result, voltage, current, v_oc, i_sc,
                   v_mp_i_mp, vlim, ilim, v_mp, i_mp, find_mp_calls, b34_i_sc,
                   mask, beta3, beta4, calc_pt, I0_vmp, I0_voc>>

\* one iteration of the loop body
find_beta0_beta1_iter ==
    /\ fn = "fit_sde_sandia" /\ pc = "beta01_loop"
    /\ idx < Len(voltage)
    /\ \E out \in polyfit(SubSeq(voltage, 1, idx), SubSeq(current, 1, idx)) :
         IF out.exc # NoExc
         THEN /\ exc' = out.exc
              /\ pc' = "raised"
              /\ UNCHANGED <<beta0, beta1, idx>>
         ELSE IF SlopeNegative(out.coef)
         THEN /\ beta0' = out.coef[2]
              /\ beta1' = Neg(out.coef[1])
              /\ pc' = "beta01_check"
              /\ UNCHANGED <<exc, idx>>
         ELSE /\ idx' = idx + 1
              /\ UNCHANGED <<exc, pc, beta0, beta1>>
    /\ UNCHANGED <<desoto_vars, fn, args, result, voltage, current, v_oc, i_sc, v_mp_i_mp,
                   vlim, ilim, v_mp, i_mp, find_mp_calls, first_idx, b01_v_oc,
                   b34_i_sc, mask, beta3, beta4, calc_pt, I0_vmp, I0_voc>>

\* the range is exhausted
find_beta0_beta1_exhausted ==
    /\ fn = "fit_sde_sandia" /\ pc = "beta01_loop"
    /\ idx >= Len(voltage)
    /\ pc' = "beta01_check"
    /\ UNCHANGED <<fn, exc, args, result, sde_vars, desoto_vars>>

\* the NaN test after the loop
find_beta0_beta1_check ==
    /\ fn = "fit_sde_sandia" /\ pc = "beta01_check"
    /\ IF IsNaN(beta0) \/ IsNaN(beta1)
       THEN /\ exc' = Exc("RuntimeError",
                            "Parameter extraction failed: beta0, beta1",
                            "_find_beta0_beta1")
            /\ pc' = "raised"
       ELSE /\ pc' = "beta34"
            /\ UNCHANGED exc
    /\ UNCHANGED <<fn, args, result, sde_vars, desoto_vars>>

\* -------------------------------------------------------- _find_beta3_beta4
\* y = beta0 - beta1 * voltage - current, at 0-based sample k
Residual(b0, b1, k) ==
    Sub(Sub(b0, Mul(b1, Int2F(voltage[k + 1]))), Int2F(current[k + 1]))

\* idx = (y > ilim * i_sc)
SelectMask(b0, b1, lim, isc) ==
    {k \in 0..(Len(voltage) - 1) : Gt(Residual(b0, b1, k), Mul(lim, Int2F(isc)))}

\* the coefficient pairs <<coef[1], coef[2]>> a regression of log(y) is
\* drawn from
Beta34Values ==
    {<<NaN, NaN>>, <<One, NaN>>, <<Zero, Zero>>, <<One, Zero>>, <<One, One>>,
     <<Int2F(-1), One>>}

\* np.linalg.lstsq(x[idx], np.log(y[idx])): the outcomes [exc, coef] with
\* coef = <<coef[1], coef[2]>>.  With no row selected numpy either rejects the
\* empty matrix (LinAlgError) or returns the zero vector, depending on its
\* version; otherwise the coefficients are some floats.
lstsq(sel) ==
    IF sel = {}
    THEN {[exc |-> Exc("LinAlgError", "Arrays cannot be empty",
                      "_find_beta3_beta4"),
           coef |-> <<NaN, NaN>>],
          [exc |-> NoExc, coef |-> <<Zero, Zero>>]}
    ELSE {[exc |-> NoExc, coef |-> c] : c \in Beta34Values}

find_beta3_beta4 ==
    /\ fn = "fit_sde_sandia" /\ pc = "beta34"
    /\ b34_i_sc' = Val(i_sc)
    /\ mask' = SelectMask(beta0, beta1, ilim, b34_i_sc')
    /\ \E out \in lstsq(mask') :
         IF out.exc # NoExc
         THEN /\ exc' = out.exc
              /\ pc' = "raised"
              /\ UNCHANGED <<beta3, beta4>>
         ELSE /\ beta3' = out.coef[1]
              /\ beta4' = out.coef[2]
              /\ IF IsNaN(out.coef[1]) \/ IsNaN(out.coef[2])
                 THEN /\ exc' = Exc("RuntimeError",
                                      "Parameter extraction failed: beta3, beta4",
                                      "_find_beta3_beta4")
                      /\ pc' = "raised"
                 ELSE /\ pc' = "calc"
                      /\ UNCHANGED exc
    /\ UNCHANGED <<desoto_vars, fn, args, result, voltage, current, v_oc, i_sc, v_mp_i_mp,
                   vlim, ilim, v_mp, i_mp, find_mp_calls, first_idx, idx,
                   b01_v_oc, beta0, beta1, calc_pt, I0_vmp, I0_voc>>

\* ------------------------------------------------ _calculate_sde_parameters
\* the magnitudes a nonzero finite estimate is drawn from
I0Magnitudes == {One, Int2F(3)}

Sign(x) == IF Lt(x, Zero) THEN Int2F(-1) ELSE IF Gt(x, Zero) THEN One ELSE Zero

\* _calc_I0: (IL - I - Gp*V - Gp*Rs*I) / np.exp((V + Rs*I) / nNsVth), the set of
\* floats the call can return.  The numerator and the exponent are computed
\* exactly; np.exp of the exponent is a positive float that may overflow to inf
\* for a positive exponent (the quotient is then 0) and underflow to 0 for a
\* negative one (the quotient of a zero numerator is then NaN; an infinite
\* quotient is drawn from the finite magnitudes: it compares like them).
calc_I0(IL, I, V, Gp, Rs, nNsVth) ==
    LET num == Sub(Sub(Sub(IL, I), Mul(Gp, V)), Mul(Mul(Gp, Rs), I))
        x   == Div(Add(V, Mul(Rs, I)), nNsVth)
    IN  IF IsNaN(num) \/ IsNaN(x) THEN {NaN}
        ELSE {Mul(Sign(num), m) : m \in I0Magnitudes}
             \cup (IF Gt(x, Zero) THEN {Zero} ELSE {})
             \cup (IF Lt(x, Zero) /\ IsZero(num) THEN {NaN} ELSE {})

\* ReconcileI0 with the test of line 520 written with < for <=
ReconcileI0_Strict(vmp, voc) ==
    IF IsNaN(vmp) \/ IsNaN(voc) \/ (Lt(vmp, Zero) /\ Lt(voc, Zero))
    THEN [fail |-> TRUE, I0 |-> NaN]
    ELSE IF Gt(vmp, Zero) /\ Gt(voc, Zero)
    THEN [fail |-> FALSE, I0 |-> Mul(Rat(1, 2), Add(vmp, voc))]
    ELSE IF Gt(vmp, Zero)
    THEN [fail |-> FALSE, I0 |-> vmp]
    ELSE [fail |-> FALSE, I0 |-> voc]

\* ReconcileI0 with the last two branches exchanged
ReconcileI0_Swapped(vmp, voc) ==
    IF IsNaN(vmp) \/ IsNaN(voc) \/ (Le(vmp, Zero) /\ Le(voc, Zero))
    THEN [fail |-> TRUE, I0 |-> NaN]
    ELSE IF Gt(vmp, Zero) /\ Gt(voc, Zero)
    THEN [fail |-> FALSE, I0 |-> Mul(Rat(1, 2), Add(vmp, voc))]
    ELSE IF Gt(vmp, Zero)
    THEN [fail |-> FALSE, I0 |-> voc]
    ELSE [fail |-> FALSE, I0 |-> vmp]

\* lines 520-527: the choice of I0 from the two estimates; fail stands for the
\* RuntimeError
ReconcileI0(vmp, voc) ==
    IF IsNaN(vmp) \/ IsNaN(voc) \/ (Le(vmp, Zero) /\ Le(voc, Zero))
    THEN [fail |-> TRUE, I0 |-> NaN]
    ELSE IF Gt(vmp, Zero) /\ Gt(voc, Zero)
    THEN [fail |-> FALSE, I0 |-> Mul(Rat(1, 2), Add(vmp, voc))]
    ELSE IF Gt(vmp, Zero)
    THEN [fail |-> FALSE, I0 |-> vmp]
    ELSE [fail |-> FALSE, I0 |-> voc]

ZeroDivision ==
    Exc("ZeroDivisionError", "float division by zero", "_calculate_sde_parameters")

\* beta0..beta4 are Python floats: a division by zero raises
calculate_sde_parameters ==
    /\ fn = "fit_sde_sandia" /\ pc = "calc"
    /\ calc_pt' = <<v_mp, i_mp, Val(v_oc)>>
    /\ IF IsZero(beta3)
       THEN /\ exc' = ZeroDivision /\ pc' = "raised"
            /\ UNCHANGED <<I0_vmp, I0_voc, result>>
       ELSE
       LET nNsVth == Div(One, beta3)
           Rs     == Div(beta4, beta3)
           den    == Sub(One, Mul(Rs, beta1))
       IN  IF IsZero(den)
           THEN /\ exc' = ZeroDivision /\ pc' = "raised"
                /\ UNCHANGED <<I0_vmp, I0_voc, result>>
           ELSE
           LET Gp == Div(beta1, den) IN
           IF IsZero(Gp)
           THEN /\ exc' = ZeroDivision /\ pc' = "raised"
                /\ UNCHANGED <<I0_vmp, I0_voc, result>>
           ELSE
           LET Rsh == Div(One, Gp)
               IL  == Mul(Add(One, Mul(Gp, Rs)), beta0)
           IN  \E a \in calc_I0(IL, Int2F(calc_pt'[2]), Int2F(calc_pt'[1]),
                                Gp, Rs, nNsVth),
                  b \in calc_I0(IL, Zero, Int2F(calc_pt'[3]), Gp, Rs, nNsVth) :
                   /\ I0_vmp' = a
                   /\ I0_voc' = b
                   /\ IF ReconcileI0(a, b).fail
                      THEN /\ exc' = Exc("RuntimeError",
                                "Parameter extraction failed: I0 is undetermined.",
                                "_calculate_sde_parameters")
                           /\ pc' = "raised"
                           /\ UNCHANGED result
                      ELSE /\ result' = <<IL, ReconcileI0(a, b).I0, Rsh, Rs, nNsVth>>
                           /\ pc' = "returned"
                           /\ UNCHANGED exc
    /\ UNCHANGED <<desoto_vars, fn, args, voltage, current, v_oc, i_sc, v_mp_i_mp, vlim,
                   ilim, v_mp, i_mp, find_mp_calls, first_idx, idx, b01_v_oc,
                   beta0, beta1, b34_i_sc, mask, beta3, beta4>>

\* ------------------------------------------------------------ fit_sde_sandia
\* the default of line 252 taken from the wrong end of the array
DefaultVocFirst(v) == v[1]

\* v_oc = voltage[-1]
DefaultVoc(v) == Last(v)

\* i_sc = current[0]
DefaultIsc(i) == i[1]

\* lines 251-258
fit_sde_sandia_defaults ==
    /\ fn = "fit_sde_sandia" /\ pc = "start"
    /\ v_oc' = IF v_oc = None THEN Some(DefaultVoc(voltage)) ELSE v_oc
    /\ i_sc' = IF i_sc = None THEN Some(DefaultIsc(current)) ELSE i_sc
    /\ IF v_mp_i_mp # None
       THEN /\ v_mp' = Val(v_mp_i_mp)[1]
            /\ i_mp' = Val(v_mp_i_mp)[2]
            /\ UNCHANGED find_mp_calls
       ELSE /\ v_mp' = find_mp(voltage, current)[1]
            /\ i_mp' = find_mp(voltage, current)[2]
            /\ find_mp_calls' = find_mp_calls + 1
    /\ pc' = "beta01"
    /\ UNCHANGED <<desoto_vars, fn, exc, args, result, voltage, current, v_mp_i_mp, vlim,
                   ilim, first_idx, idx, b01_v_oc, beta0, beta1, b34_i_sc,
                   mask, beta3, beta4, calc_pt, I0_vmp, I0_voc>>

\* voltage: increasing from 0; current: any samples in 0..MaxI
Voltages ==
    UNION {{s \in [1..n -> 0..MaxV] :
               /\ s[1] = 0
               /\ \A k \in 1..(n - 1) : s[k] < s[k + 1]} : n \in 2..MaxLen}

\* the current arrays as long as voltage array v
Currents(v) == [1..Len(v) -> 0..MaxI]

\* the locals of fit_sde_sandia before the call assigns them
SdeLocalsUnset ==
    /\ v_mp = 0
    /\ i_mp = 0
    /\ find_mp_calls = 0
    /\ first_idx = 0
    /\ idx = 0
    /\ b01_v_oc = 0
    /\ beta0 = NaN
    /\ beta1 = NaN
    /\ b34_i_sc = 0
    /\ mask = {}
    /\ beta3 = NaN
    /\ beta4 = NaN
    /\ calc_pt = <<0, 0, 0>>
    /\ I0_vmp = NaN
    /\ I0_voc = NaN

\* fit_sdm_desoto is not running
DesotoIdle ==
    /\ celltype = <<>>
    /\ Tref = NaN
    /\ EgRef = NaN
    /\ dEgdT = NaN
    /\ alpha_sc = NaN
    /\ beta_voc = NaN
    /\ specs = <<>>
    /\ root_calls = 0
    /\ root_result = [success |-> FALSE, x |-> <<>>]

\* a call of fit_sde_sandia
Init ==
    /\ fn = "fit_sde_sandia"
    /\ pc = "start"
    /\ exc = NoExc
    /\ voltage \in Voltages
    /\ current \in Currents(voltage)
    /\ v_oc \in {None, Some(MaxV - 1)}
    /\ i_sc \in {None, Some(MaxI)}
    /\ v_mp_i_mp \in {None, Some(<<1, 1>>)}
    /\ vlim \in {Rat(1, 5), Rat(3, 5)}
    /\ ilim \in {Rat(1, 10), Rat(1, 2)}
    /\ args = [v_oc |-> v_oc, i_sc |-> i_sc, v_mp_i_mp |-> v_mp_i_mp]
    /\ SdeLocalsUnset
    /\ result = <<>>
    /\ DesotoIdle

Next ==
    \/ fit_sde_sandia_defaults
    \/ find_beta0_beta1_start
    \/ find_beta0_beta1_iter
    \/ find_beta0_beta1_exhausted
    \/ find_beta0_beta1_check
    \/ find_beta3_beta4
    \/ calculate_sde_parameters

Spec == Init /\ [][Next]_vars

\* ---------------------------------------------------------------- _find_mp
MpMaxLen == 3

MpMaxVal == 1

\* a call of _find_mp on any non-empty pair of arrays
find_mp_call ==
    /\ fn = "_find_mp" /\ pc = "start"
    /\ result' = find_mp(voltage, current)
    /\ find_mp_calls' = find_mp_calls + 1
    /\ pc' = "returned"
    /\ UNCHANGED <<desoto_vars, fn, exc, args, voltage, current, v_oc, i_sc,
                   v_mp_i_mp, vlim, ilim, v_mp, i_mp, first_idx, idx, b01_v_oc,
                   beta0, beta1, b34_i_sc, mask, beta3, beta4, calc_pt, I0_vmp,
                   I0_voc>>

InitMp ==
    /\ fn = "_find_mp"
    /\ pc = "start"
    /\ exc = NoExc
    /\ \E n \in 1..MpMaxLen :
         /\ voltage \in [1..n -> (-1)..MpMaxVal]
         /\ current \in [1..n -> (-1)..MpMaxVal]
    /\ v_oc = None
    /\ i_sc = None
    /\ v_mp_i_mp = None
    /\ vlim = NaN
    /\ ilim = NaN
    /\ args = [voltage |-> voltage, current |-> current]
    /\ SdeLocalsUnset
    /\ result = <<>>
    /\ DesotoIdle

NextMp == find_mp_call

SpecMp == InitMp /\ [][NextMp]_vars

\* ------------------------------------------------------------ fit_sdm_desoto
\* Strings are sequences of one-character strings.
UpperChars ==
    <<"A", "B", "C", "D", "E", "F", "G", "H", "I", "J", "K", "L", "M", "N", "O", "P", "Q", "R", "S", "T", "U", "V", "W", "X", "Y", "Z">>

LowerChars ==
    <<"a", "b", "c", "d", "e", "f", "g", "h", "i", "j", "k", "l", "m", "n", "o", "p", "q", "r", "s", "t", "u", "v", "w", "x", "y", "z">>

\* str.lower() on one character
LowerChar(c) ==
    IF \E k \in 1..Len(UpperChars) : UpperChars[k] = c
    THEN LowerChars[CHOOSE k \in 1..Len(UpperChars) : UpperChars[k] = c]
    ELSE c

UpperChar(c) ==
    IF \E k \in 1..Len(LowerChars) : LowerChars[k] = c
    THEN UpperChars[CHOOSE k \in 1..Len(LowerChars) : LowerChars[k] = c]
    ELSE c

\* a lookup that compares the string as given
lower_identity(str) == str

\* str.lower()
lower(str) == [k \in 1..Len(str) |-> LowerChar(str[k])]

W_monosi == <<"m", "o", "n", "o", "s", "i">>

W_polysi == <<"p", "o", "l", "y", "s", "i">>

W_multisi == <<"m", "u", "l", "t", "i", "s", "i">>

W_mono_c_si == <<"m", "o", "n", "o", "-", "c", "-", "s", "i">>

W_multi_c_si == <<"m", "u", "l", "t", "i", "-", "c", "-", "s", "i">>

W_cis == <<"c", "i", "s">>

W_cigs == <<"c", "i", "g", "s">>

W_cdte == <<"c", "d", "t", "e">>

W_amorphous == <<"a", "m", "o", "r", "p", "h", "o", "u", "s">>

W_thin_film == <<"t", "h", "i", "n", " ", "f", "i", "l", "m">>

W_gaas == <<"g", "a", "a", "s">>

W_foobar == <<"f", "o", "o", "b", "a", "r">>

W_thin_film_hyphen == <<"t", "h", "i", "n", "-", "f", "i", "l", "m">>

W_poly_c_si == <<"p", "o", "l", "y", "-", "c", "-", "s", "i">>

W_si == <<"s", "i">>

\* the list of line 359-360
SiliconNames == {W_monosi, W_polysi, W_multisi, W_mono_c_si, W_multi_c_si}

\* the list of line 363
NotImplementedNames == {W_cis, W_cigs, W_cdte, W_amorphous, W_thin_film}

\* decimal literal m * 10^e
Dec(m, e) == [m |-> m, e |-> e]

\* EgRef = 1.796e-19 [J]
EgRefSilicon == Dec(1796, -22)

\* dEgdT = -0.0002677
dEgdTSilicon == Dec(-2677, -7)

\* lines 359-366: the outcome of the technology lookup
CellTypeLookup(ct) ==
    IF lower(ct) \in SiliconNames
    THEN [exc |-> NoExc, EgRef |-> EgRefSilicon, dEgdT |-> dEgdTSilicon]
    ELSE IF lower(ct) \in NotImplementedNames
    THEN [exc |-> Exc("NotImplementedError", "", "fit_sdm_desoto"), EgRef |-> NaN, dEgdT |-> NaN]
    ELSE [exc |-> Exc("ValueError", "Unknown cell type.", "fit_sdm_desoto"),
          EgRef |-> NaN, dEgdT |-> NaN]

\* Tref = temp_ref + 273.15
Kelvin(temp_ref) == Add(Int2F(temp_ref), Rat(27315, 100))

\* lines 357-366
desoto_lookup ==
    /\ fn = "fit_sdm_desoto" /\ pc = "start"
    /\ Tref' = Kelvin(args.temp_ref)
    /\ LET r == CellTypeLookup(celltype) IN
         IF r.exc # NoExc
         THEN /\ exc' = r.exc
              /\ pc' = "raised"
              /\ UNCHANGED <<EgRef, dEgdT>>
         ELSE /\ EgRef' = r.EgRef
              /\ dEgdT' = r.dEgdT
              /\ pc' = "convert"
              /\ UNCHANGED exc
    /\ UNCHANGED <<fn, args, result, sde_vars, celltype, alpha_sc, beta_voc,
                   specs, root_calls, root_result>>

\* the coefficient left in %/K
PercentToAbsolute_Unconverted(coef, ref) == coef

\* coefficient [%/K] * ref / 100
PercentToAbsolute(coef, ref) == Div(Mul(coef, Int2F(ref)), Int2F(100))

\* lines 368-370 and 420: unit conversion and the specs vector
desoto_convert ==
    /\ fn = "fit_sdm_desoto" /\ pc = "convert"
    /\ alpha_sc' = PercentToAbsolute(alpha_sc, args.i_sc)
    /\ beta_voc' = PercentToAbsolute(beta_voc, args.v_oc)
    /\ specs' = <<Int2F(args.i_sc), Int2F(args.v_oc), Int2F(args.i_mp),
                  Int2F(args.v_mp), beta_voc', alpha_sc'>>
    /\ pc' = "solve"
    /\ UNCHANGED <<fn, exc, args, result, sde_vars, celltype, Tref, EgRef,
                   dEgdT, root_calls, root_result>>

\* the solution vectors [IL, Io, a, Rsh, Rs] root may report
RootVectors ==
    {<<Int2F(8), Rat(1, 1000), Int2F(2), Int2F(300), Rat(1, 3)>>,
     <<Int2F(1), Int2F(2), Int2F(3), Int2F(4), Int2F(5)>>}

\* scipy.optimize.root(pv_fct, x0=params_i, args=specs, method='lm'): what the
\* solver can report, a success flag and the final vector x
root(sp) == {[success |-> ok, x |-> x] : ok \in BOOLEAN, x \in RootVectors}

\* line 423
desoto_root ==
    /\ fn = "fit_sdm_desoto" /\ pc = "solve"
    /\ root_result' \in root(specs)
    /\ root_calls' = root_calls + 1
    /\ pc' = "solved"
    /\ UNCHANGED <<fn, exc, args, result, sde_vars, celltype, Tref, EgRef,
                   dEgdT, alpha_sc, beta_voc, specs>>

\* lines 431-440
SdmRecord(sdm_params) ==
    [I_L_ref |-> sdm_params[1],
     I_o_ref |-> sdm_params[2],
     a_ref |-> sdm_params[3],
     R_sh_ref |-> sdm_params[4],
     R_s |-> sdm_params[5],
     alpha_sc |-> alpha_sc,
     EgRef |-> EgRef,
     dEgdT |-> dEgdT,
     irrad_ref |-> args.irrad_ref,
     temp_ref |-> args.temp_ref]

\* a finish that never takes the failure branch
RootSucceeded_Always(res) == TRUE

\* if result.success:
RootSucceeded(res) == res.success

\* lines 425-440
desoto_finish ==
    /\ fn = "fit_sdm_desoto" /\ pc = "solved"
    /\ IF RootSucceeded(root_result)
       THEN /\ result' = SdmRecord(root_result.x)
            /\ pc' = "returned"
            /\ UNCHANGED exc
       ELSE /\ exc' = Exc("RuntimeError", "Parameter estimation failed",
                        "fit_sdm_desoto")
            /\ pc' = "raised"
            /\ UNCHANGED result
    /\ UNCHANGED <<fn, args, sde_vars, desoto_vars>>

Upper(str) == [k \in 1..Len(str) |-> UpperChar(str[k])]

Capitalize(str) ==
    [k \in 1..Len(str) |-> IF k = 1 THEN UpperChar(str[k]) ELSE str[k]]

\* upper case at the even positions
Alternate(str) ==
    [k \in 1..Len(str) |-> IF k % 2 = 0 THEN UpperChar(str[k]) ELSE str[k]]

\* the celltype strings tried, each in four letter cases
CellTypeWords ==
    SiliconNames \cup NotImplementedNames
    \cup {W_gaas, W_foobar, W_thin_film_hyphen, W_poly_c_si, W_si, <<>>}

CellTypeInputs ==
    UNION {{ct, Upper(ct), Capitalize(ct), Alternate(ct)} : ct \in CellTypeWords}

\* a call of fit_sdm_desoto
InitDesoto ==
    /\ fn = "fit_sdm_desoto"
    /\ pc = "start"
    /\ exc = NoExc
    /\ celltype \in CellTypeInputs
    /\ alpha_sc \in {Rat(4, 1000), Rat(1, 20)}
    /\ beta_voc \in {Rat(-127, 1000)}
    /\ \E isc \in {8, 9}, tref \in {25, 0} :
         args = [celltype |-> celltype, v_mp |-> 31, i_mp |-> 7, v_oc |-> 38,
                 i_sc |-> isc, alpha_sc |-> alpha_sc, beta_voc |-> beta_voc,
                 cells_in_series |-> 60, temp_ref |-> tref, irrad_ref |-> 1000]
    /\ Tref = NaN
    /\ EgRef = NaN
    /\ dEgdT = NaN
    /\ specs = <<>>
    /\ root_calls = 0
    /\ root_result = [success |-> FALSE, x |-> <<>>]
    /\ result = <<>>
    /\ voltage = <<>>
    /\ current = <<>>
    /\ v_oc = None
    /\ i_sc = None
    /\ v_mp_i_mp = None
    /\ vlim = NaN
    /\ ilim = NaN
    /\ SdeLocalsUnset

NextDesoto ==
    \/ desoto_lookup
    \/ desoto_convert
    \/ desoto_root
    \/ desoto_finish

SpecDesoto == InitDesoto /\ [][NextDesoto]_vars

\* ====================================================================
\* Properties
\* ====================================================================
IsSde == fn = "fit_sde_sandia"

I0Undetermined ==
    /\ pc = "raised"
    /\ exc.type = "RuntimeError"
    /\ exc.msg = "Parameter extraction failed: I0 is undetermined."

\* _calculate_sde_parameters has computed both estimates and chosen
Reconciled == IsSde /\ (pc = "returned" \/ I0Undetermined)

BothPositive == Gt(I0_vmp, Zero) /\ Gt(I0_voc, Zero)

ExactlyOnePositive ==
    \/ Gt(I0_vmp, Zero) /\ Le(I0_voc, Zero)
    \/ Le(I0_vmp, Zero) /\ Gt(I0_voc, Zero)

NeitherPositive == Le(I0_vmp, Zero) /\ Le(I0_voc, Zero)

EitherNaN == IsNaN(I0_vmp) \/ IsNaN(I0_voc)

\* C1: once _calculate_sde_parameters has the two estimates, exactly one of
\* four cases applies (positive: > 0, not positive: a number <= 0): both
\* positive, and I0 is their mean; exactly one positive, and I0 is that one;
\* neither positive, or either NaN, and the call raises RuntimeError
\* 'I0 is undetermined' and returns no tuple.
C1_Reconciliation ==
    Reconciled =>
        /\ Cardinality({c \in {"both", "one", "neither", "nan"} :
               \/ c = "both" /\ BothPositive
               \/ c = "one" /\ ExactlyOnePositive
               \/ c = "neither" /\ NeitherPositive
               \/ c = "nan" /\ EitherNaN}) = 1
        /\ BothPositive =>
               /\ pc = "returned"
               /\ Mul(Int2F(2), result[2]) = Add(I0_vmp, I0_voc)
        /\ ExactlyOnePositive =>
               /\ pc = "returned"
               /\ result[2] = (IF Gt(I0_vmp, Zero) THEN I0_vmp ELSE I0_voc)
        /\ (NeitherPositive \/ EitherNaN) =>
               /\ I0Undetermined
               /\ result = <<>>

\* C1 witness: exactly one estimate is positive and the tuple carries it
C1_Witness ==
    /\ Reconciled /\ ExactlyOnePositive
    /\ pc = "returned"
    /\ Gt(I0_voc, Zero)
    /\ result[2] = I0_voc

\* the other three cases of C1 are reached as well
C1_WitnessBoth == Reconciled /\ BothPositive /\ I0_vmp # I0_voc

C1_WitnessNeither == Reconciled /\ NeitherPositive /\ IsZero(I0_vmp) /\ IsZero(I0_voc)

C1_WitnessNaN == Reconciled /\ EitherNaN

\* the exponential-region mask has been computed
MaskComputed ==
    /\ IsSde
    /\ \/ pc \in {"calc", "returned"}
       \/ pc = "raised" /\ exc.where \in {"_find_beta3_beta4",
                                          "_calculate_sde_parameters"}

\* C3: whenever the exponential-region mask is empty the call ends with
\* RuntimeError 'Parameter extraction failed', never with another exception
\* and never with _find_beta3_beta4 returning.
C3_EmptyMaskRaisesExtractionFailed ==
    (MaskComputed /\ mask = {}) =>
        /\ pc = "raised"
        /\ exc.type = "RuntimeError"
        /\ exc.msg = "Parameter extraction failed: beta3, beta4"

\* C6: a tuple returned by fit_sde_sandia has I0 > 0
C6_I0Positive ==
    (IsSde /\ pc = "returned") => Gt(result[2], Zero)

\* C6 witness: a returned tuple whose I0 is the mean of two distinct estimates
C6_Witness ==
    /\ IsSde /\ pc = "returned"
    /\ Len(result) = 5
    /\ BothPositive /\ I0_vmp # I0_voc

\* _find_beta0_beta1 has just returned a coefficient pair
Beta01Returned == IsSde /\ pc = "beta34"

\* the smallest 0-based index whose sample is >= thr, Len(v) when there is none
StartIndex(v, thr) ==
    LET S == {k \in 0..(Len(v) - 1) : Le(thr, Int2F(v[k + 1]))}
    IN  IF S = {} THEN Len(v)
        ELSE CHOOSE k \in S : \A j \in S : k <= j

\* the slopes the fit of the window [0, e) can return
WindowSlopes(e) ==
    {o.coef[1] : o \in {o \in polyfit(SubSeq(voltage, 1, e), SubSeq(current, 1, e)) :
                            o.exc = NoExc}}

\* C5: when _find_beta0_beta1 returns, the accepted window [0, idx) has a
\* fitted slope < 0, beta1 is its negation and so > 0, and no window [0, e)
\* with start <= e < idx has a negative slope, start being the smallest index
\* whose voltage is >= vlim * v_oc.
C5_FirstNegativeWindow ==
    Beta01Returned =>
        LET start == StartIndex(voltage, Mul(vlim, Int2F(b01_v_oc))) IN
        /\ start <= idx
        /\ idx < Len(voltage)
        /\ \E sl \in WindowSlopes(idx) : Lt(sl, Zero) /\ beta1 = Neg(sl)
        /\ Gt(beta1, Zero)
        /\ \A e \in start..(idx - 1) :
               \A sl \in WindowSlopes(e) : ~Lt(sl, Zero)

\* C5 witness: a window of at least two samples was fitted and rejected before
\* the accepted one
C5_Witness ==
    /\ Beta01Returned
    /\ first_idx >= 2
    /\ idx > first_idx
    /\ \E sl \in WindowSlopes(first_idx) : ~IsNaN(sl)

\* what the docstring promises for the optional arguments
ExpectedVoc == IF args.v_oc = None THEN voltage[Len(voltage)] ELSE args.v_oc[1]

ExpectedIsc == IF args.i_sc = None THEN current[1] ELSE args.i_sc[1]

\* _find_beta0_beta1 is running
Beta01Entered == IsSde /\ pc \in {"beta01_loop", "beta01_check"}

\* _find_beta3_beta4 has just ended
Beta34Ended ==
    /\ IsSde
    /\ \/ pc = "calc"
       \/ pc = "raised" /\ exc.where = "_find_beta3_beta4"

CalcEntered ==
    /\ IsSde
    /\ \/ pc = "returned"
       \/ pc = "raised" /\ exc.where = "_calculate_sde_parameters"

\* C10: the v_oc of the linear-region threshold and of the open-circuit anchor
\* is the explicit v_oc, else the last voltage sample; the i_sc of the
\* exponential-region threshold is the explicit i_sc, else the first current
\* sample; the max-power pair of the parameter recovery is the explicit pair,
\* and _find_mp runs only when none is given.
C10_OptionalArguments ==
    /\ Beta01Entered =>
           /\ b01_v_oc = ExpectedVoc
           /\ first_idx = StartIndex(voltage, Mul(vlim, Int2F(ExpectedVoc)))
    /\ Beta34Ended =>
           /\ b34_i_sc = ExpectedIsc
           /\ mask = {k \in 0..(Len(voltage) - 1) :
                         Gt(Residual(beta0, beta1, k),
                            Mul(ilim, Int2F(ExpectedIsc)))}
    /\ CalcEntered =>
           /\ calc_pt[3] = ExpectedVoc
           /\ args.v_mp_i_mp # None =>
                  <<calc_pt[1], calc_pt[2]>> = args.v_mp_i_mp[1]
           /\ args.v_mp_i_mp = None =>
                  \E k \in 1..Len(voltage) :
                      /\ <<calc_pt[1], calc_pt[2]>> = <<voltage[k], current[k]>>
                      /\ \A j \in 1..Len(voltage) :
                             voltage[j] * current[j] <= voltage[k] * current[k]
    /\ (IsSde /\ pc # "start") =>
           find_mp_calls = (IF args.v_mp_i_mp = None THEN 1 ELSE 0)

\* C10 witness: a completed call given v_oc, differing from the last voltage
\* sample, and neither i_sc nor the max-power pair
C10_Witness ==
    /\ IsSde /\ pc = "returned"
    /\ args.v_oc # None
    /\ args.v_oc[1] # voltage[Len(voltage)]
    /\ args.i_sc = None
    /\ args.v_mp_i_mp = None
    /\ find_mp_calls = 1

\* C7: _find_mp returns the sample at the smallest index whose product
\* voltage * current is the largest of all samples.
C7_FirstMaximum ==
    (fn = "_find_mp" /\ pc = "returned") =>
        \E k \in 1..Len(voltage) :
            /\ result = <<voltage[k], current[k]>>
            /\ \A j \in 1..Len(voltage) :
                   voltage[j] * current[j] <= voltage[k] * current[k]
            /\ \A j \in 1..(k - 1) :
                   voltage[j] * current[j] # voltage[k] * current[k]

\* C7 witness: two different samples tie for the largest product
C7_Witness ==
    /\ fn = "_find_mp" /\ pc = "returned"
    /\ \E j, k \in 1..Len(voltage) :
           /\ j < k
           /\ voltage[j] * current[j] = voltage[k] * current[k]
           /\ <<voltage[j], current[j]>> # <<voltage[k], current[k]>>
           /\ \A m \in 1..Len(voltage) :
                  voltage[m] * current[m] <= voltage[k] * current[k]

IsDesoto == fn = "fit_sdm_desoto"

\* str is word (lower case) up to the case of its letters
SameIgnoringCase(str, word) ==
    /\ Len(str) = Len(word)
    /\ \A k \in 1..Len(word) : str[k] \in {word[k], UpperChar(word[k])}

IsSiliconName == \E w \in SiliconNames : SameIgnoringCase(celltype, w)

IsNotImplementedName ==
    \E w \in NotImplementedNames : SameIgnoringCase(celltype, w)

LookupRaised(type) ==
    /\ pc = "raised"
    /\ exc.type = type
    /\ root_calls = 0

C2_WitnessNotImplemented == IsDesoto /\ LookupRaised("NotImplementedError")
                            /\ SameIgnoringCase(celltype, W_cigs)

C2_WitnessUnknown == IsDesoto /\ LookupRaised("ValueError")
                     /\ celltype = W_foobar

\* C9: celltype 'gaas', in any letter case, passes the technology lookup:
\* neither NotImplementedError nor ValueError is raised.
C9_GaasAccepted ==
    (IsDesoto /\ pc # "start" /\ SameIgnoringCase(celltype, W_gaas)) =>
        /\ ~LookupRaised("NotImplementedError")
        /\ ~LookupRaised("ValueError")

\* the call is past the solver's verdict
DesotoFinished ==
    /\ IsDesoto
    /\ root_calls > 0
    /\ pc \in {"returned", "raised"}

\* C4: root is called at most once; when it reports failure the call raises
\* RuntimeError 'Parameter estimation failed' and returns nothing; a record is
\* returned only when root reported success, after exactly one call.
C4_SolverFailureRaises ==
    IsDesoto =>
        /\ root_calls <= 1
        /\ (DesotoFinished /\ ~root_result.success) =>
               /\ pc = "raised"
               /\ exc.type = "RuntimeError"
               /\ exc.msg = "Parameter estimation failed"
               /\ result = <<>>
        /\ (pc = "returned" \/ result # <<>>) =>
               /\ root_result.success
               /\ root_calls = 1

\* C4 witness: the solver failed and the call raised
C4_Witness ==
    /\ DesotoFinished
    /\ ~root_result.success
    /\ pc = "raised"
    /\ root_result.x # <<>>

\* C8: the returned record holds the solution vector position for position,
\* alpha_sc = input alpha_sc * i_sc / 100, the silicon EgRef and dEgdT, and
\* the caller's irrad_ref and temp_ref (Celsius).
C8_ResultRecord ==
    (IsDesoto /\ pc = "returned") =>
        /\ result.I_L_ref = root_result.x[1]
        /\ result.I_o_ref = root_result.x[2]
        /\ result.a_ref = root_result.x[3]
        /\ result.R_sh_ref = root_result.x[4]
        /\ result.R_s = root_result.x[5]
        /\ Mul(result.alpha_sc, Int2F(100)) = Mul(args.alpha_sc, Int2F(args.i_sc))
        /\ result.EgRef = [m |-> 1796, e |-> -22]
        /\ result.dEgdT = [m |-> -2677, e |-> -7]
        /\ result.irrad_ref = args.irrad_ref
        /\ result.temp_ref = args.temp_ref

\* C8 witness: a returned record whose alpha_sc differs from the input and
\* whose temp_ref differs from Tref
C8_Witness ==
    /\ IsDesoto /\ pc = "returned"
    /\ result.alpha_sc # args.alpha_sc
    /\ Int2F(result.temp_ref) # Tref
    /\ result.I_L_ref # result.R_s

\* _find_beta0_beta1 has ended by its own return or its own raise
Beta01Ended ==
    /\ IsSde
    /\ \/ pc = "beta34"
       \/ /\ pc = "raised"
          /\ exc.where = "_find_beta0_beta1"
          /\ exc.type = "RuntimeError"

Beta01Failed ==
    /\ pc = "raised"
    /\ exc.msg = "Parameter extraction failed: beta0, beta1"
    /\ IsNaN(beta0) /\ IsNaN(beta1)

\* no window [0, e) with lo <= e <= hi has a negative fitted slope
NoNegativeWindow(lo, hi) ==
    \A e \in lo..hi : \A sl \in WindowSlopes(e) : ~Lt(sl, Zero)

\* C11: _find_beta0_beta1 raises RuntimeError with beta0 and beta1 NaN if and
\* only if no window [0, e), from the start index up to and including the
\* window reaching the end of the curve (e = len(v)), has a negative slope.
C11_FailsIffNoWindowToCurveEnd ==
    Beta01Ended =>
        (Beta01Failed <=>
            NoNegativeWindow(StartIndex(voltage, Mul(vlim, Int2F(b01_v_oc))),
                             Len(voltage)))

\* what the loop of line 479 does: the last window tried is [0, len(v) - 1)
C11_FailsIffNoWindowTried ==
    Beta01Ended =>
        (Beta01Failed <=>
            NoNegativeWindow(StartIndex(voltage, Mul(vlim, Int2F(b01_v_oc))),
                             Len(voltage) - 1))

\* the loop has tried the windows in order, one sample at a time, and is
\* bounded by the length of the curve
C11_LoopBounded ==
    (IsSde /\ pc = "beta01_loop") =>
        /\ first_idx <= idx
        /\ idx <= (IF first_idx > Len(voltage) THEN first_idx ELSE Len(voltage))
        /\ NoNegativeWindow(first_idx, idx - 1)

\* the call has failed although the window of the whole curve slopes down
C11_FullWindowNeverTried ==
    /\ Beta01Ended /\ Beta01Failed
    /\ \E sl \in WindowSlopes(Len(voltage)) : Lt(sl, Zero)

====
